---- MODULE Spec2Model ----
(***************************************************************************)
(* Model of src/src/MCTPBinding.cpp: the request matcher                   *)
(* (processMctpCommand) and the delayed response queue (processResponse)   *)
(* of the MCTP emulator, driven by D-Bus method calls, by the asio timer   *)
(* and by whoever rewrites the request/response file.                      *)
(***************************************************************************)
EXTENDS Integers, Sequences, FiniteSets, TLC

(* ------------------------------ bounds --------------------------------- *)
\* inbound method calls handled in one run
MaxReq == 2

(* ------------------------- program constants --------------------------- *)
retryTimeMilliSec == 10

MCTP_MESSAGE_TYPE_MCTP_CTRL == 0
MCTP_MESSAGE_TYPE_PLDM == 1
MCTP_MESSAGE_TYPE_NCSI == 2
MCTP_MESSAGE_TYPE_ETHERNET == 3
MCTP_MESSAGE_TYPE_NVME == 4
MCTP_MESSAGE_TYPE_SPDM == 5
MCTP_MESSAGE_TYPE_VDPCI == 126
MCTP_MESSAGE_TYPE_VDIANA == 127

\* the one vendor id of vendorMap, 0x8086
IntelVendorId == 32902
\* the value the Intel reserved byte must carry, 0x80
IntelReserved == 128

\* struct mctp_vdpci_intel_hdr of libmctp-vdpci.h, which the payload is read
\* through from its first byte on (line 186): the message type byte, then the
\* wire layout of the vendor header, a big-endian vendor id, the vendor type
\* code and the reserved byte (positions counted from 1)
VdpciHdrLen == 5
VendorIdOffset == 2
VendorTypeCodeOffset == 4
ReservedOffset == 5

\* time passes in steps of half a timer interval
TimeStep == retryTimeMilliSec \div 2

Max(a, b) == IF a > b THEN a ELSE b

(* ------------------------- pure functions ------------------------------ *)

\* a JSON number stored into a uint8_t
ToU8(n) == n % 256

\* std::vector<uint8_t>::assign from a JSON array of numbers
ToBytes(arr) == [i \in DOMAIN arr |-> ToU8(arr[i])]

\* the case for SPDM is missing
getMessageTypeNoSpdm(msgType) ==
    CASE msgType = MCTP_MESSAGE_TYPE_MCTP_CTRL -> "MctpControl"
      [] msgType = MCTP_MESSAGE_TYPE_PLDM -> "PLDM"
      [] msgType = MCTP_MESSAGE_TYPE_NCSI -> "NCSI"
      [] msgType = MCTP_MESSAGE_TYPE_ETHERNET -> "Ethernet"
      [] msgType = MCTP_MESSAGE_TYPE_NVME -> "NVMeMgmtMsg"
      [] msgType = MCTP_MESSAGE_TYPE_VDPCI -> "VDPCI"
      [] msgType = MCTP_MESSAGE_TYPE_VDIANA -> "VDIANA"
      [] OTHER -> "Unknown"

getMessageType(msgType) ==
    CASE msgType = MCTP_MESSAGE_TYPE_MCTP_CTRL -> "MctpControl"
      [] msgType = MCTP_MESSAGE_TYPE_PLDM -> "PLDM"
      [] msgType = MCTP_MESSAGE_TYPE_NCSI -> "NCSI"
      [] msgType = MCTP_MESSAGE_TYPE_ETHERNET -> "Ethernet"
      [] msgType = MCTP_MESSAGE_TYPE_NVME -> "NVMeMgmtMsg"
      [] msgType = MCTP_MESSAGE_TYPE_SPDM -> "SPDM"
      [] msgType = MCTP_MESSAGE_TYPE_VDPCI -> "VDPCI"
      [] msgType = MCTP_MESSAGE_TYPE_VDIANA -> "VDIANA"
      [] OTHER -> "Unknown"

\* vendorMap: the vendor ids the emulator knows
vendorMap == (IntelVendorId :> "Intel")

\* be16toh(vdpciMessage->vdpci_hdr.vendor_id)
vendor_id(payload) == payload[VendorIdOffset] * 256 + payload[VendorIdOffset + 1]

vendor_type_code(payload) == payload[VendorTypeCodeOffset]

reserved(payload) == payload[ReservedOffset]

(* --------------------- the request/response file ----------------------- *)
\* One entry of a rule array.  ok = FALSE is an entry whose fields cannot be
\* read (get<> throws json::exception); hasDelay says whether the key
\* "processing-delay" is there.
Rule(req, resp, hasDelay, delay) ==
    [ok |-> TRUE, request |-> req, response |-> resp,
     hasDelay |-> hasDelay, delay |-> delay]

BadRule == [ok |-> FALSE, request |-> <<>>, response |-> <<>>,
            hasDelay |-> FALSE, delay |-> 0]

PldmRules ==
    << Rule(<<1, 2>>, <<10>>, TRUE, 0),
       Rule(<<1, 2>>, <<11>>, TRUE, 10),
       BadRule,
       Rule(<<2, 1>>, <<12>>, TRUE, 10),
       Rule(<<2, 1>>, <<13>>, TRUE, 0),
       Rule(<<4>>, <<14>>, TRUE, -1),
       Rule(<<4>>, <<15>>, TRUE, 0),
       Rule(<<5>>, <<16>>, TRUE, -2),
       Rule(<<5>>, <<17>>, TRUE, 10),
       Rule(<<262>>, <<18>>, FALSE, 0),
       Rule(<<7>>, <<19>>, TRUE, 50),
       Rule(<<3>>, <<20>>, TRUE, 5) >>

IntelRules ==
    << Rule(<<9>>, <<21>>, TRUE, 10),
       Rule(<<>>, <<22>>, TRUE, 0) >>

\* The states the file can be in: a document, absent, or not JSON.
Configs ==
    << [state |-> "ok",
        doc |-> [PLDM |-> PldmRules,
                 VDPCI |-> [Intel |-> ("1" :> IntelRules)]]],
       [state |-> "missing", doc |-> <<>>],
       [state |-> "unparsable", doc |-> <<>>] >>

ConfigIds == DOMAIN Configs

(* --------------------------- inbound calls ----------------------------- *)
PldmBodies ==
    { <<>>, <<1>>, <<1, 2>>, <<1, 2, 3>>, <<2, 1>>, <<3>>, <<4>>, <<5>>,
      <<6>>, <<7>>, <<8>> }

VdpciPayloads ==
    { <<126>>,
      <<126, 128, 134, 1>>,
      <<126, 128, 134, 1, 128>>,
      <<126, 128, 134, 1, 128, 9>>,
      <<126, 128, 134, 1, 128, 9, 9>>,
      <<126, 128, 135, 1, 128, 9>>,
      <<126, 128, 134, 1, 0, 9>>,
      <<126, 128, 134, 2, 128, 9>> }

Payloads ==
    { <<>>, <<0, 1, 2>>, <<10, 1, 2>> }
    \cup { <<MCTP_MESSAGE_TYPE_PLDM>> \o b : b \in PldmBodies }
    \cup VdpciPayloads

\* the method calls tried: every payload to endpoint 8 with tag 0 and the
\* tag-owner bit clear, two of them to endpoint 9 with tag 1 and the bit set
Call(DstEid, MsgTag, TagOwner, payload) ==
    [dstEid |-> DstEid, msgTag |-> MsgTag, tagOwner |-> TagOwner,
     payload |-> payload]

Calls ==
    { Call(8, 0, FALSE, p) : p \in Payloads }
    \cup { Call(9, 1, TRUE, p) : p \in { <<1, 1, 2>>, <<1, 2, 1>> } }

(* ------------------------ processMctpCommand --------------------------- *)
\* reqResp[messageType]: the value under a key, null (no rules) when the key
\* is not there
Lookup(obj, key) == IF key \in DOMAIN obj THEN obj[key] ELSE <<>>

\* the rule array the scan runs over (lines 165 and 208)
reqRespData(doc, payload) ==
    LET messageType == getMessageType(payload[1]) IN
    IF messageType = "VDPCI"
    THEN Lookup(Lookup(Lookup(doc, "VDPCI"), vendorMap[vendor_id(payload)]),
                ToString(vendor_type_code(payload)))
    ELSE Lookup(doc, messageType)

\* the bytes put in front of each rule's request (lines 174-222)
reqHeader(payload) ==
    IF getMessageType(payload[1]) = "VDPCI"
    THEN SubSeq(payload, 1, VdpciHdrLen)
    ELSE << payload[1] >>

\* processingDelayMilliSec of an entry (lines 229-237)
processingDelay(rule) == IF rule.hasDelay THEN rule.delay ELSE 0

\* a delay of 0 is queued like a positive one
DelayPolicyQueuesZero(d) ==
    IF d = -1 THEN "never"
    ELSE IF d >= 0 THEN "queued"
    ELSE "invalid"

\* only -1 is told apart from a delay to wait for
DelayPolicyQueuesNegative(d) ==
    IF d = 0 THEN "immediate"
    ELSE IF d = -1 THEN "never"
    ELSE "queued"

\* what a matched rule's delay makes the handler do (lines 255-283)
DelayPolicy(d) ==
    IF d = 0 THEN "immediate"
    ELSE IF d = -1 THEN "never"
    ELSE IF d > 0 THEN "queued"
    ELSE "invalid"

\* a payload no rule matches is answered at once with an empty response
EmptyReply == [kind |-> "immediate", idx |-> 0, delay |-> 0, response |-> <<>>]

NoRule == [kind |-> "nomatch", idx |-> 0, delay |-> 0, response |-> <<>>]

\* the payload only has to start with the request
ReqIsPrefix(req, payload) ==
    Len(req) <= Len(payload) /\ SubSeq(payload, 1, Len(req)) = req

\* req == payload (line 250)
ReqEquals(req, payload) == req = payload

\* the loop runs on after a match, and the last matching entry decides
ScanLast(rules, i, hdr, payload) ==
    LET M == { k \in i .. Len(rules) :
                 rules[k].ok /\ hdr \o ToBytes(rules[k].request) = payload }
        k == CHOOSE k \in M : \A j \in M : j <= k
    IN  IF M = {} THEN NoRule
        ELSE [kind |-> DelayPolicy(processingDelay(rules[k])), idx |-> k,
              delay |-> processingDelay(rules[k]),
              response |-> ToBytes(rules[k].response)]

\* the exception of an unreadable entry ends the loop
RECURSIVE ScanUntilUnreadable(_, _, _, _)
ScanUntilUnreadable(rules, i, hdr, payload) ==
    IF i > Len(rules) THEN NoRule
    ELSE IF ~rules[i].ok THEN NoRule
    ELSE IF ReqEquals(hdr \o ToBytes(rules[i].request), payload)
         THEN [kind |-> DelayPolicy(processingDelay(rules[i])), idx |-> i,
               delay |-> processingDelay(rules[i]),
               response |-> ToBytes(rules[i].response)]
         ELSE ScanUntilUnreadable(rules, i + 1, hdr, payload)

\* the loop of lines 224-286 from entry i on: an unreadable entry is skipped,
\* the first entry whose header and request equal the payload ends the loop
RECURSIVE ScanFrom(_, _, _, _)
ScanFrom(rules, i, hdr, payload) ==
    IF i > Len(rules) THEN NoRule
    ELSE IF ~rules[i].ok THEN ScanFrom(rules, i + 1, hdr, payload)
    ELSE IF ReqEquals(hdr \o ToBytes(rules[i].request), payload)
         THEN [kind |-> DelayPolicy(processingDelay(rules[i])), idx |-> i,
               delay |-> processingDelay(rules[i]),
               response |-> ToBytes(rules[i].response)]
         ELSE ScanFrom(rules, i + 1, hdr, payload)

Dropped(kind) == [kind |-> kind, idx |-> 0, delay |-> 0, response |-> <<>>]

\* the reserved byte is not looked at
VendorCheckNoReserved(payload) ==
    IF Len(payload) < VdpciHdrLen THEN "vd_short"
    ELSE IF vendor_id(payload) \notin DOMAIN vendorMap THEN "vd_vendor"
    ELSE ""

\* the vendor header checks of lines 175-203; "" when the header passes
VendorCheck(payload) ==
    IF Len(payload) < VdpciHdrLen THEN "vd_short"
    ELSE IF vendor_id(payload) \notin DOMAIN vendorMap THEN "vd_vendor"
    ELSE IF vendorMap[vendor_id(payload)] = "Intel"
            /\ reserved(payload) # IntelReserved THEN "vd_reserved"
    ELSE ""

\* the rules are the ones of a table built once, whatever the file is now
DecideFromFirstTable(c, payload) ==
    IF Len(payload) = 0 THEN Dropped("fault")
    ELSE IF getMessageType(payload[1]) = "VDPCI" /\ VendorCheck(payload) # ""
         THEN Dropped(VendorCheck(payload))
    ELSE ScanFrom(reqRespData(Configs[1].doc, payload), 1, reqHeader(payload),
                  payload)

\* the path one call takes through processMctpCommand, in the code's order
Decide(c, payload) ==
    IF Len(payload) = 0 THEN Dropped("fault")
    ELSE IF c.state = "missing" THEN Dropped("nofile")
    ELSE IF c.state = "unparsable" THEN Dropped("badjson")
    ELSE IF getMessageType(payload[1]) = "VDPCI" /\ VendorCheck(payload) # ""
         THEN Dropped(VendorCheck(payload))
    ELSE ScanFrom(reqRespData(c.doc, payload), 1, reqHeader(payload), payload)

(* ------------------------------ state ---------------------------------- *)
VARIABLES
    reqRespDataFile,  \* which of Configs the file on disk is
    respQueue,        \* the pending responses, in push_back order
    timerExpired,     \* the global flag of line 25
    waitPending,      \* delayTimer has an async_wait outstanding
    timerRem,         \* time left until that wait expires
    timerStopped,     \* a completion handler has returned on an error code
    emitted,          \* every sendMessageReceivedSignal call so far
    reqLog,           \* what each handled method call came to
    last              \* the method call the handler has just returned from

vars == << reqRespDataFile, respQueue, timerExpired, waitPending, timerRem,
           timerStopped, emitted, reqLog, last >>

timerVars == << timerExpired, waitPending, timerRem >>

NoCall ==
    [dstEid |-> 0, msgTag |-> 0, tagOwner |-> FALSE, payload |-> <<>>,
     cfg |-> 0, kind |-> "none", idx |-> 0]

\* last after a completion handler that ran to the end and sent n responses
Ticked(n) == [NoCall EXCEPT !.kind = "tick", !.idx = n]

\* how a call is remembered in reqLog
Class(kind) ==
    IF kind \in {"fault", "immediate", "never", "invalid", "queued"} THEN kind
    ELSE "dropped"

Init ==
    /\ reqRespDataFile \in ConfigIds
    /\ respQueue = <<>>
    /\ timerExpired = TRUE
    /\ waitPending = FALSE
    /\ timerRem = 0
    /\ timerStopped = FALSE
    /\ emitted = <<>>
    /\ reqLog = <<>>
    /\ last = NoCall

(* ---------------------------- operations ------------------------------- *)
\* one sendMessageReceivedSignal call; id, via, d0, age and ticks record which
\* method call it answers and how long the response waited
Signal(msgType, srcEid, msgTag, tagOwner, response, id, via, d0, age, ticks) ==
    [msgType |-> msgType, srcEid |-> srcEid, msgTag |-> msgTag,
     tagOwner |-> tagOwner, response |-> response,
     id |-> id, via |-> via, d0 |-> d0, age |-> age, ticks |-> ticks]

\* the flag is not cleared
processResponseKeepsFlag ==
    /\ timerExpired' = timerExpired
    /\ waitPending' = TRUE
    /\ timerRem' = retryTimeMilliSec

\* processResponse up to the async_wait: the flag is cleared and the timer armed
processResponse ==
    /\ timerExpired' = FALSE
    /\ waitPending' = TRUE
    /\ timerRem' = retryTimeMilliSec

\* the queue is tested for empty after the push, so the timer never starts
StartsTimerNever == FALSE

\* the timer itself is asked whether a wait is outstanding
StartsTimerIfNoWait == ~waitPending

\* line 272: does an enqueue start the timer
StartsTimer == timerExpired

\* the queued response claims the tag of the request
PendingOwnsTag(delay, msgType, srcEid, msgTag, tagOwner, response, id) ==
    [first |-> delay, msgType |-> msgType, srcEid |-> srcEid,
     msgTag |-> msgTag, tagOwner |-> TRUE, response |-> response,
     id |-> id, d0 |-> delay, age |-> 0, ticks |-> 0]

\* the element std::make_pair builds at lines 268-271
Pending(delay, msgType, srcEid, msgTag, tagOwner, response, id) ==
    [first |-> delay, msgType |-> msgType, srcEid |-> srcEid,
     msgTag |-> msgTag, tagOwner |-> tagOwner, response |-> response,
     id |-> id, d0 |-> delay, age |-> 0, ticks |-> 0]

processMctpCommand(dstEid, payload) ==
    LET r == Decide(Configs[reqRespDataFile], payload)
        id == Len(reqLog) + 1
        msgType == payload[1]
        srcEid == dstEid
        msgTag == 0
        tagOwner == FALSE
    IN  /\ reqLog' = Append(reqLog, Class(r.kind))
        /\ CASE r.kind = "immediate" ->
                  /\ emitted' = Append(emitted,
                        Signal(msgType, srcEid, msgTag, tagOwner, r.response,
                               id, "immediate", 0, 0, 0))
                  /\ UNCHANGED << respQueue, timerVars >>
             [] r.kind = "queued" ->
                  /\ respQueue' = Append(respQueue,
                        Pending(r.delay, msgType, srcEid, msgTag, tagOwner,
                                r.response, id))
                  /\ IF StartsTimer THEN processResponse
                     ELSE UNCHANGED timerVars
                  /\ UNCHANGED emitted
             [] OTHER -> UNCHANGED << respQueue, timerVars, emitted >>

\* the registered method (lines 308-325): one inbound call, handled to the end;
\* MsgTag and TagOwner are taken and not used.  last remembers the call.
SendMctpMessagePayload(DstEid, MsgTag, TagOwner, payload) ==
    /\ Len(reqLog) < MaxReq
    /\ processMctpCommand(DstEid, payload)
    /\ last' = [dstEid |-> DstEid, msgTag |-> MsgTag, tagOwner |-> TagOwner,
                payload |-> payload, cfg |-> reqRespDataFile,
                kind |-> Decide(Configs[reqRespDataFile], payload).kind,
                idx |-> Decide(Configs[reqRespDataFile], payload).idx]
    /\ UNCHANGED << reqRespDataFile, timerStopped >>

\* the remaining delay is checked as if already decremented
IsDueAfterDecrement(resp) == ~(resp.first - retryTimeMilliSec > 0)

\* an entry is sent only once its remaining delay is below zero
IsDueBelowZero(resp) == resp.first < 0

\* line 104: the predicate of remove_if, true for an entry that is sent
IsDue(resp) == ~(resp.first > 0)

\* line 132
Decrement(resp) == [resp EXCEPT !.first = resp.first - retryTimeMilliSec]

\* due entries are erased without being sent
SendsNothing(q) == <<>>

\* nothing is erased
KeepAll(q) == q

\* the callback stops at the first entry it sends
FirstDueOnly(q) ==
    IF SelectSeq(q, IsDue) = <<>> THEN <<>> ELSE << Head(SelectSeq(q, IsDue)) >>

\* the entries a callback sends, in queue order, and the ones it keeps
DueEntries(q) == SelectSeq(q, IsDue)
KeptEntries(q) == SelectSeq(q, LAMBDA resp : ~IsDue(resp))

SawTick(resp) == [resp EXCEPT !.ticks = resp.ticks + 1]

\* the completion handler of lines 86-135, called with error code ec
TimerCallback(ec) ==
    /\ waitPending
    /\ ec = "success" => timerRem = 0
    /\ UNCHANGED << reqRespDataFile, reqLog >>
    /\ IF ec # "success"
       THEN /\ waitPending' = FALSE
            /\ last' = NoCall
            /\ timerRem' = 0
            /\ timerStopped' = TRUE
            /\ UNCHANGED << respQueue, timerExpired, emitted >>
       ELSE LET q == [i \in DOMAIN respQueue |-> SawTick(respQueue[i])]
                due == DueEntries(q)
                kept == KeptEntries(q)
            IN  /\ UNCHANGED timerStopped
                /\ last' = Ticked(Len(due))
                /\ emitted' = emitted \o
                      [i \in DOMAIN due |->
                          Signal(due[i].msgType, due[i].srcEid, due[i].msgTag,
                                 due[i].tagOwner, due[i].response, due[i].id,
                                 "queue", due[i].d0, due[i].age, due[i].ticks)]
                /\ IF kept = <<>>
                   THEN /\ respQueue' = <<>>
                        /\ timerExpired' = TRUE
                        /\ waitPending' = FALSE
                        /\ timerRem' = 0
                   ELSE /\ respQueue' = [i \in DOMAIN kept |-> Decrement(kept[i])]
                        /\ processResponse

\* Time passes: the armed timer runs down and every pending entry grows older.
\* The handler is taken to run the moment the wait expires: a handler that runs
\* late only makes the entries older than recorded here.
Advance ==
    /\ waitPending
    /\ timerRem > 0
    /\ timerRem' = Max(0, timerRem - TimeStep)
    /\ respQueue' = [i \in DOMAIN respQueue |->
                       [respQueue[i] EXCEPT !.age = @ + TimeStep]]
    /\ last' = NoCall
    /\ UNCHANGED << reqRespDataFile, timerExpired, waitPending, timerStopped,
                    emitted, reqLog >>

\* the file is replaced while the emulator runs
RewriteFile(c) ==
    /\ c # reqRespDataFile
    /\ reqRespDataFile' = c
    /\ last' = NoCall
    /\ UNCHANGED << respQueue, timerVars, timerStopped, emitted, reqLog >>

Next ==
    \/ \E call \in Calls :
          SendMctpMessagePayload(call.dstEid, call.msgTag, call.tagOwner,
                                 call.payload)
    \/ \E ec \in {"success", "operation_aborted", "error"} : TimerCallback(ec)
    \/ Advance
    \/ \E c \in ConfigIds : RewriteFile(c)

Spec == Init /\ [][Next]_vars

\* The emulator with a timer that never fails.  The io_context runs a handler
\* whose wait has expired, and time does not stop.
NextLive ==
    \/ \E call \in Calls :
          SendMctpMessagePayload(call.dstEid, call.msgTag, call.tagOwner,
                                 call.payload)
    \/ TimerCallback("success")
    \/ Advance
    \/ \E c \in ConfigIds : RewriteFile(c)

SpecLive ==
    /\ Init
    /\ [][NextLive]_vars
    /\ WF_vars(TimerCallback("success"))
    /\ WF_vars(Advance)

(* The classifier on its own: getMessageType is called with any value a
   uint8_t can hold, as line 164 calls it with the first byte of a payload;
   last holds the byte and the name returned. *)
Uint8 == 0 .. 255

Classify(msgType) ==
    /\ last' = [NoCall EXCEPT !.payload = << msgType >>,
                              !.kind = getMessageType(msgType)]
    /\ UNCHANGED << reqRespDataFile, respQueue, timerVars, timerStopped,
                    emitted, reqLog >>

NextClassify == \E msgType \in Uint8 : Classify(msgType)

SpecClassify == Init /\ [][NextClassify]_vars

(* ============================ properties =============================== *)
Ids == 1 .. MaxReq

InQueue(id) == \E i \in DOMAIN respQueue : respQueue[i].id = id

\* the sendMessageReceivedSignal calls made for method call id
EmissionsOf(id) == { i \in DOMAIN emitted : emitted[i].id = id }

QueueEmissions == { i \in DOMAIN emitted : emitted[i].via = "queue" }

Enqueued == { i \in DOMAIN reqLog : reqLog[i] = "queued" }

(* C1: with a timer that keeps firing without error, every response pushed to
   respQueue is sent from the queue exactly once and then removed: at any
   moment the queue emissions and the entries still pending add up to the
   entries enqueued, no call is answered twice, and every pending entry is
   eventually sent and gone. *)
C1_ExactlyOnce ==
    /\ [](/\ Cardinality(QueueEmissions) + Len(respQueue) = Cardinality(Enqueued)
          /\ \A id \in Ids : Cardinality(EmissionsOf(id)) <= 1
          /\ \A id \in Ids : InQueue(id) => EmissionsOf(id) = {})
    /\ \A id \in Ids :
          InQueue(id) ~> (~InQueue(id) /\ Cardinality(EmissionsOf(id)) = 1
                          /\ \A i \in EmissionsOf(id) : emitted[i].via = "queue")

\* two entries with different delays were enqueued and both have been sent
C1_Witness ==
    /\ Len(emitted) = 2
    /\ respQueue = <<>>
    /\ \A i \in DOMAIN emitted : emitted[i].via = "queue"
    /\ emitted[1].d0 # emitted[2].d0
    /\ emitted[1].id # emitted[2].id

(* C2 as stated: between handlers the timer has a wait outstanding, and
   timerExpired is false, exactly when respQueue is non-empty, whatever the
   completion handlers were called with. *)
C2_TimerActiveIffNonEmpty ==
    /\ waitPending <=> respQueue # <<>>
    /\ ~timerExpired <=> respQueue # <<>>

(* C2 amended: timerExpired is false exactly when respQueue is non-empty; a
   wait is outstanding exactly when respQueue is non-empty and no completion
   handler has returned on an error code (after such a return the entries stay
   queued with no wait outstanding); and a wait comes to be outstanding
   exactly in the step that enqueues into an empty queue. *)
C2_FlagIffNonEmpty ==
    /\ [](/\ ~timerExpired <=> respQueue # <<>>
          /\ waitPending <=> (respQueue # <<>> /\ ~timerStopped))
    /\ [][(~waitPending /\ waitPending')
            <=> (respQueue = <<>> /\ respQueue' # <<>>)]_vars

\* an entry is queued behind a handler that returned on an error code
C2_Witness ==
    /\ timerStopped
    /\ Len(respQueue) = 2
    /\ ~timerExpired
    /\ ~waitPending

(* C3: a queued response with delay d > 0 is not sent before d time units have
   passed since its enqueue, nor before ceil(d / 10) timer callbacks have run
   since then, whether it was enqueued into an idle queue or into one whose
   wait was already running. *)
C3_NotBeforeDelay ==
    \A i \in QueueEmissions :
        /\ emitted[i].d0 > 0
        /\ emitted[i].age >= emitted[i].d0
        /\ emitted[i].ticks * retryTimeMilliSec >= emitted[i].d0

\* a delay of 50 enqueued half an interval before the next callback of a
\* running timer has been sent
C3_Witness ==
    \E i \in QueueEmissions :
        emitted[i].d0 = 50 /\ emitted[i].age = 55 /\ emitted[i].ticks >= 5

(* ---- what one call to the registered method is expected to do ---- *)
\* the step is one handled method call; last' is that call
Handled == Len(reqLog') = Len(reqLog) + 1

\* the file as the handler finds it
CurrentFile == Configs[reqRespDataFile]

\* the prefix a rule's request is compared behind: the message type byte, or
\* for a vendor PCI payload its own vendor header bytes
HeaderPrefix(payload) ==
    IF payload[1] = MCTP_MESSAGE_TYPE_VDPCI
    THEN SubSeq(payload, 1, VdpciHdrLen)
    ELSE SubSeq(payload, 1, 1)

\* a vendor PCI payload the validator turns away
VendorRejected(payload) ==
    /\ payload[1] = MCTP_MESSAGE_TYPE_VDPCI
    /\ \/ Len(payload) < VdpciHdrLen
       \/ payload[VendorIdOffset] * 256 + payload[VendorIdOffset + 1] # IntelVendorId
       \/ payload[ReservedOffset] # IntelReserved

\* the call gets as far as the rule scan
Scanned(payload) ==
    /\ Len(payload) > 0
    /\ CurrentFile.state = "ok"
    /\ ~VendorRejected(payload)

RulesFor(payload) == reqRespData(CurrentFile.doc, payload)

\* the readable rules whose prefix and request are the payload, byte for byte
MatchingRules(payload) ==
    { i \in DOMAIN RulesFor(payload) :
        /\ RulesFor(payload)[i].ok
        /\ Len(payload) = Len(HeaderPrefix(payload)) + Len(RulesFor(payload)[i].request)
        /\ \A k \in 1 .. Len(payload) :
              payload[k] = (HeaderPrefix(payload) \o
                            ToBytes(RulesFor(payload)[i].request))[k] }

FirstMatching(payload) ==
    CHOOSE i \in MatchingRules(payload) : \A j \in MatchingRules(payload) : i <= j

DelayOf(rule) == IF rule.hasDelay THEN rule.delay ELSE 0

NoEffect == UNCHANGED << emitted, respQueue, timerExpired, waitPending, timerRem >>

\* exactly one signal is sent in the step, with this response, for this call
SentNow(response) ==
    /\ Len(emitted') = Len(emitted) + 1
    /\ SubSeq(emitted', 1, Len(emitted)) = emitted
    /\ emitted'[Len(emitted')].response = response
    /\ emitted'[Len(emitted')].via = "immediate"
    /\ emitted'[Len(emitted')].id = Len(reqLog')

\* exactly one entry is pushed in the step, with this delay and response
QueuedNow(delay, response) ==
    /\ Len(respQueue') = Len(respQueue) + 1
    /\ SubSeq(respQueue', 1, Len(respQueue)) = respQueue
    /\ respQueue'[Len(respQueue')].first = delay
    /\ respQueue'[Len(respQueue')].response = response
    /\ respQueue'[Len(respQueue')].id = Len(reqLog')

\* the delay policy of one rule, and of no other, is carried out
Applied(rule) ==
    IF DelayOf(rule) = 0
    THEN SentNow(ToBytes(rule.response)) /\ UNCHANGED respQueue
    ELSE IF DelayOf(rule) > 0
    THEN QueuedNow(DelayOf(rule), ToBytes(rule.response)) /\ UNCHANGED emitted
    ELSE NoEffect

(* C4: when the matched rule has delay 0 the response is sent inside the
   handler's own step, nothing is pushed to respQueue and the timer state is
   left as it was. *)
C4_ImmediateIsSynchronous ==
    [][(/\ Handled
        /\ Scanned(last'.payload)
        /\ MatchingRules(last'.payload) # {}
        /\ DelayOf(RulesFor(last'.payload)[FirstMatching(last'.payload)]) = 0)
       => /\ SentNow(ToBytes(
                 RulesFor(last'.payload)[FirstMatching(last'.payload)].response))
          /\ UNCHANGED << respQueue, timerExpired, waitPending, timerRem >>]_vars

\* a delay-0 rule was matched while another response was pending
C4_Witness ==
    /\ last.kind = "immediate"
    /\ last.payload = <<1, 1, 2>>
    /\ Len(emitted) = 1
    /\ emitted[1].via = "immediate"
    /\ emitted[1].response = <<10>>
    /\ Len(respQueue) = 1
    /\ waitPending

(* C5: when the matched rule has delay -1 or any other negative delay, the
   handler sends nothing, pushes nothing, leaves the timer alone and applies no
   later rule; and no signal sent later, nor any pending entry, belongs to
   such a call. *)
C5_NegativeDelayIsSilent ==
    /\ [][(/\ Handled
           /\ Scanned(last'.payload)
           /\ MatchingRules(last'.payload) # {}
           /\ DelayOf(RulesFor(last'.payload)[FirstMatching(last'.payload)]) < 0)
          => /\ NoEffect
             /\ reqLog'[Len(reqLog')] \in {"never", "invalid"}]_vars
    /\ [](/\ \A i \in DOMAIN emitted :
                reqLog[emitted[i].id] \notin {"never", "invalid"}
          /\ \A i \in DOMAIN respQueue :
                reqLog[respQueue[i].id] \notin {"never", "invalid"})

\* a -1 rule and a -2 rule, each with a later rule for the same request, have
\* both been matched, and nothing was sent
C5_Witness ==
    /\ reqLog = << "never", "invalid" >>
    /\ emitted = <<>>
    /\ respQueue = <<>>
    /\ timerExpired
    /\ last.payload = <<1, 5>>
    /\ last.idx = 8

(* C6: first match wins: when some rule of the looked-up list equals the
   payload behind the header prefix, the rule the handler stops at is the one
   with the smallest index among them, and that rule's response and delay
   policy are the only ones carried out. *)
C6_FirstMatchWins ==
    [][(/\ Handled
        /\ Scanned(last'.payload)
        /\ MatchingRules(last'.payload) # {})
       => /\ last'.idx = FirstMatching(last'.payload)
          /\ Applied(RulesFor(last'.payload)[FirstMatching(last'.payload)])]_vars

\* the delayed rule 4 was taken although the immediate rule 5 has the same
\* request
C6_Witness ==
    /\ last.payload = <<1, 2, 1>>
    /\ last.idx = 4
    /\ Cardinality(MatchingRules(last.payload)) = 2
    /\ Len(respQueue) = 1
    /\ respQueue[1].response = <<12>>
    /\ emitted = <<>>

(* C7: exact match only: the handler stops at a rule if and only if some
   readable rule's request behind the header prefix is the whole payload, in
   length and in every byte, and the rule it stops at is such a rule;
   otherwise nothing is sent or queued.  A request [1, 2] matches the body
   [1, 2] and neither [1, 2, 3] nor [1]. *)
C7_ExactMatchOnly ==
    [][(Handled /\ Scanned(last'.payload))
       => /\ last'.idx # 0 <=> MatchingRules(last'.payload) # {}
          /\ last'.idx # 0 => last'.idx \in MatchingRules(last'.payload)
          /\ MatchingRules(last'.payload) = {}
                => NoEffect /\ last'.kind = "nomatch"
          /\ last'.payload = <<1, 1, 2, 3>> => last'.idx = 0
          /\ last'.payload = <<1, 1>> => last'.idx = 0
          /\ (last'.payload = <<1, 1, 2>> /\ reqRespDataFile = 1)
                => last'.idx = 1]_vars

\* the payload one byte longer than rule 1's request found no rule
C7_Witness ==
    /\ last.payload = <<1, 1, 2, 3>>
    /\ last.cfg = 1
    /\ last.kind = "nomatch"
    /\ emitted = <<>>
    /\ respQueue = <<>>

(* C8: a vendor PCI payload shorter than the vendor header, or with a vendor
   id outside the registry, or with an Intel reserved byte other than 0x80, is
   dropped: nothing is sent, nothing is queued, the timer state stays. *)
C8_VendorRejection ==
    [][(/\ Handled
        /\ Len(last'.payload) > 0
        /\ VendorRejected(last'.payload))
       => /\ NoEffect
          /\ last'.idx = 0
          /\ reqLog'[Len(reqLog')] = "dropped"]_vars

\* a payload with reserved byte 0, which the Intel rules would match behind
\* its own header, was turned away
C8_Witness ==
    /\ last.payload = <<126, 128, 134, 1, 0, 9>>
    /\ last.cfg = 1
    /\ last.kind = "vd_reserved"
    /\ emitted = <<>>
    /\ respQueue = <<>>

(* C9: the response emitter runs at most once for any one method call, only
   for calls that were handled, never for a call whose response is still
   pending, and in all at most as often as calls were handled. *)
C9_AtMostOncePerCall ==
    /\ \A i \in DOMAIN emitted : emitted[i].id \in DOMAIN reqLog
    /\ \A id \in DOMAIN reqLog : Cardinality(EmissionsOf(id)) <= 1
    /\ \A id \in DOMAIN reqLog : InQueue(id) => EmissionsOf(id) = {}
    /\ \A i, j \in DOMAIN respQueue : respQueue[i].id = respQueue[j].id => i = j
    /\ Len(emitted) <= Len(reqLog)

\* one call was answered at once and one from the queue
C9_Witness ==
    /\ Len(emitted) = 2
    /\ Len(reqLog) = 2
    /\ \E i, j \in DOMAIN emitted :
          emitted[i].via = "immediate" /\ emitted[j].via = "queue"

(* C10: no method call makes processMctpCommand throw: every call, the empty
   payload included, returns normally. *)
C10_NoFaultPropagates ==
    \A i \in DOMAIN reqLog : reqLog[i] # "fault"

(* ---- what one run of the completion handler is expected to do ---- *)
Idle == respQueue = <<>> /\ timerExpired /\ ~waitPending

\* the step is a completion handler called without an error code
SuccessTick == last'.kind = "tick"

\* the calls whose response is sent from the queue in the step
NewlySent ==
    { emitted'[i].id : i \in (DOMAIN emitted') \ (DOMAIN emitted) }

PendingIds == { respQueue[i].id : i \in DOMAIN respQueue }

(* C11: with a timer that fires without error the queue always drains to
   Idle (respQueue empty, no wait outstanding, timerExpired true) once the
   enqueues stop; an enqueue into the Idle queue arms the timer again for a
   full interval, and the queue drains again, so Idle is never final. *)
C11_DrainsAndRestarts ==
    /\ (respQueue # <<>>) ~> Idle
    /\ [][(Idle /\ respQueue' # <<>>)
            => (waitPending' /\ ~timerExpired' /\ timerRem' = retryTimeMilliSec)]_vars
    /\ [][(~Idle /\ Idle') => SuccessTick]_vars

\* the queue has drained once and a second entry was just enqueued into it
C11_Witness ==
    /\ Len(emitted) = 1
    /\ emitted[1].via = "queue"
    /\ emitted[1].id = 1
    /\ last.kind = "queued"
    /\ Len(respQueue) = 1
    /\ respQueue[1].id = 2
    /\ waitPending
    /\ ~timerExpired

(* C12: every entry whose remaining delay is <= 0 when a completion handler
   runs is sent and removed by that handler, wherever it stands in respQueue:
   two entries due in the same callback are both sent in it, in queue order. *)
C12_SameTickBothSent ==
    [][SuccessTick
       => /\ \A i \in DOMAIN respQueue :
                respQueue[i].first <= 0
                   => /\ respQueue[i].id \in NewlySent
                      /\ respQueue[i].id \notin { respQueue'[k].id : k \in DOMAIN respQueue' }
          /\ \A i, j \in DOMAIN respQueue :
                respQueue[i].first = respQueue[j].first
                   => (respQueue[i].id \in NewlySent <=> respQueue[j].id \in NewlySent)
          /\ last'.idx = Cardinality({ i \in DOMAIN respQueue : respQueue[i].first <= 0 })]_vars

\* one completion handler has just sent two responses
C12_Witness ==
    /\ last.kind = "tick"
    /\ last.idx = 2
    /\ Len(emitted) = 2
    /\ \A i \in DOMAIN emitted : emitted[i].via = "queue"
    /\ emitted[1].id # emitted[2].id
    /\ respQueue = <<>>

\* the names the documented type codes carry
CategoryNames ==
    (0 :> "MctpControl") @@ (1 :> "PLDM") @@ (2 :> "NCSI") @@ (3 :> "Ethernet")
    @@ (4 :> "NVMeMgmtMsg") @@ (5 :> "SPDM") @@ (126 :> "VDPCI")
    @@ (127 :> "VDIANA")

(* C13: the classifier is total: for every byte value it returns a name, the
   documented one for 0x00 .. 0x05, 0x7E and 0x7F, and "Unknown" for every
   other value. *)
C13_ClassifierTotal ==
    last.kind # "none"
       => /\ Len(last.payload) = 1
          /\ last.payload[1] \in Uint8
          /\ IF last.payload[1] \in DOMAIN CategoryNames
             THEN last.kind = CategoryNames[last.payload[1]]
             ELSE last.kind = "Unknown"

\* the classifier has been called with 0x05 and returned SPDM
C13_Witness == last.payload = << 5 >> /\ last.kind = "SPDM"

\* ceil(d / 10): the number of intervals a delay of d takes up
Ceil(d) == (d + retryTimeMilliSec - 1) \div retryTimeMilliSec

(* C14 as stated: the remaining delays are decremented first and what is then
   <= 0 is sent on the same tick, so that the response of the first call, which
   is enqueued into an idle queue, is sent on tick ceil(d / 10). *)
C14_DecrementThenSend ==
    \A i \in QueueEmissions :
        emitted[i].id = 1 => emitted[i].ticks = Ceil(emitted[i].d0)

(* C14 amended: on each tick the entries whose remaining delay is <= 0 are
   sent and removed first, and only then is the remaining delay of the entries
   that stay decremented by 10; so a response with delay d is sent on tick
   ceil(d / 10) + 1 after its enqueue, into an idle queue or not. *)
C14_SendThenDecrement ==
    /\ [][SuccessTick
          => /\ NewlySent =
                  { respQueue[i].id : i \in { k \in DOMAIN respQueue :
                                                  respQueue[k].first <= 0 } }
             /\ \A i \in DOMAIN respQueue :
                   respQueue[i].first > 0
                      => \E k \in DOMAIN respQueue' :
                            /\ respQueue'[k].id = respQueue[i].id
                            /\ respQueue'[k].first =
                                  respQueue[i].first - retryTimeMilliSec
             /\ Len(respQueue') = Len(respQueue) - Cardinality(NewlySent)]_vars
    /\ [](\A i \in QueueEmissions :
             emitted[i].ticks = Ceil(emitted[i].d0) + 1)

\* the first call's delay of 10 was kept by the first tick and sent by the second
C14_Witness ==
    /\ Len(emitted) = 1
    /\ emitted[1].via = "queue"
    /\ emitted[1].id = 1
    /\ emitted[1].d0 = 10
    /\ emitted[1].ticks = 2
    /\ emitted[1].age = 20
    /\ last.kind = "tick"

(* C18: the handler checks before it decrements: a response with delay d > 0
   is sent by exactly the (ceil(d / 10) + 1)-th completion handler that runs
   without error after its enqueue, whatever else is queued, and no entry
   whose remaining delay is <= 0 when a handler starts is still queued when
   it returns: a pending entry has lost 10 for every handler it has seen and
   has seen at most ceil(d / 10) of them. *)
C18_EmittedOnCeilPlusOne ==
    /\ \A i \in QueueEmissions :
          /\ emitted[i].d0 > 0
          /\ emitted[i].ticks = Ceil(emitted[i].d0) + 1
    /\ \A i \in DOMAIN respQueue :
          /\ respQueue[i].first = respQueue[i].d0 - retryTimeMilliSec * respQueue[i].ticks
          /\ respQueue[i].ticks <= Ceil(respQueue[i].d0)
          /\ respQueue[i].first > -retryTimeMilliSec

\* a delay of 50 went out on its 6th tick and a delay of 10, queued beside it,
\* on its 2nd
C18_Witness ==
    /\ Len(emitted) = 2
    /\ \E i, j \in QueueEmissions :
          /\ emitted[i].d0 = 50 /\ emitted[i].ticks = 6
          /\ emitted[j].d0 = 10 /\ emitted[j].ticks = 2
          /\ emitted[j].age < 20

\* what the handler would make of a payload if it were handed in now
OutcomeNow(payload) == Decide(CurrentFile, payload)

C16_DropChangesNothing ==
    [][(/\ Handled
        /\ Len(last'.payload) > 0
        /\ \/ CurrentFile.state # "ok"
           \/ VendorRejected(last'.payload)
           \/ RulesFor(last'.payload) = <<>>
           \/ MatchingRules(last'.payload) = {})
       => /\ UNCHANGED << emitted, respQueue, timerExpired, waitPending,
                          timerRem, timerStopped >>
          /\ reqLog'[Len(reqLog')] = "dropped"]_vars

\* a payload of a category the file does not have was dropped while a
\* response was pending, and the pending response stayed
C16_Witness ==
    /\ last.payload = << 0, 1, 2 >>
    /\ last.cfg = 1
    /\ last.kind = "nomatch"
    /\ reqLog = << "queued", "dropped" >>
    /\ Len(respQueue) = 1
    /\ waitPending
    /\ emitted = <<>>

(* C17: an entry whose fields cannot be read is skipped and the scan goes on:
   the handler never stops at such an entry, and a payload whose first
   matching readable rule stands behind one still gets that rule. *)
C17_UnreadableEntrySkipped ==
    [][(Handled /\ Scanned(last'.payload))
       => /\ last'.idx # 0 => RulesFor(last'.payload)[last'.idx].ok
          /\ (\E i \in MatchingRules(last'.payload) :
                 \E j \in 1 .. (i - 1) : ~RulesFor(last'.payload)[j].ok)
                => /\ last'.idx = FirstMatching(last'.payload)
                   /\ Applied(RulesFor(last'.payload)[last'.idx])
          /\ (\A i \in DOMAIN RulesFor(last'.payload) :
                 ~RulesFor(last'.payload)[i].ok
                    => i \notin MatchingRules(last'.payload))]_vars

\* rule 11, eight entries behind the unreadable entry 3, was found and queued
C17_Witness ==
    /\ last.payload = << 1, 7 >>
    /\ last.cfg = 1
    /\ last.idx = 11
    /\ ~Configs[1].doc.PLDM[3].ok
    /\ Len(respQueue) = 1
    /\ respQueue[1].first = 50
    /\ respQueue[1].response = << 19 >>

\* entry i of the old queue is entry i of the new one, delay included
QueueKept ==
    /\ Len(respQueue') >= Len(respQueue)
    /\ SubSeq(respQueue', 1, Len(respQueue)) = respQueue

(* C19: an error (or operation_aborted) in the timer callback is final for
   the queue: the callback returns with no new wait and with timerExpired
   still false, and from then on no entry of respQueue is ever sent or
   removed or counted down, a later delayed response is appended without
   starting the timer, and a delay-0 response is still sent at once. *)
C19_TimerErrorIsFinal ==
    /\ [](timerStopped
            => /\ ~waitPending
               /\ ~timerExpired
               /\ respQueue # <<>>)
    /\ [][timerStopped
            => /\ timerStopped'
               /\ QueueKept
               /\ QueueEmissions' = QueueEmissions
               /\ \A i \in (DOMAIN emitted') \ (DOMAIN emitted) :
                     emitted'[i].via = "immediate"
               /\ (Handled /\ Scanned(last'.payload)
                     /\ MatchingRules(last'.payload) # {})
                    => Applied(RulesFor(last'.payload)[FirstMatching(last'.payload)])]_vars
    /\ [][(waitPending /\ ~waitPending' /\ respQueue' = respQueue /\ respQueue # <<>>)
            => (timerStopped' /\ ~timerExpired' /\ emitted' = emitted)]_vars

\* a delayed response was appended behind the entry the error left pending,
\* and no wait was started
C19_Witness ==
    /\ timerStopped
    /\ reqLog = << "queued", "queued" >>
    /\ Len(respQueue) = 2
    /\ last.kind = "queued"
    /\ respQueue[2].id = 2
    /\ respQueue[2].age = 0
    /\ respQueue[1].age > 0
    /\ ~waitPending
    /\ emitted = <<>>

\* the five values of a MessageReceivedSignal, of a signal or a queue entry
Fields(x) == << x.msgType, x.srcEid, x.msgTag, x.tagOwner, x.response >>

\* the five values a response to the call of this step has to carry
FieldsOfCall ==
    << last'.payload[1], last'.dstEid, 0, FALSE,
       ToBytes(RulesFor(last'.payload)[FirstMatching(last'.payload)].response) >>

NewSignals == (DOMAIN emitted') \ (DOMAIN emitted)

(* C20: every response sent, at once or from the queue, and every response
   put in the queue carries the first payload byte of the call it answers as
   message type, that call's destination eid as source eid, tag 0, tag-owner
   false and the bytes of the matched rule's response, whatever tag and
   tag-owner bit the call came with; a pending entry keeps these five values
   through timer callbacks, removals of other entries and later enqueues, and
   a signal sent from the queue carries the values of its entry. *)
C20_ResponseFields ==
    [][/\ SubSeq(emitted', 1, Len(emitted)) = emitted
       /\ \A i \in NewSignals :
             IF emitted'[i].via = "immediate"
             THEN /\ Handled
                  /\ Scanned(last'.payload)
                  /\ MatchingRules(last'.payload) # {}
                  /\ emitted'[i].id = Len(reqLog')
                  /\ Fields(emitted'[i]) = FieldsOfCall
             ELSE \E j \in DOMAIN respQueue :
                     /\ respQueue[j].id = emitted'[i].id
                     /\ Fields(emitted'[i]) = Fields(respQueue[j])
       /\ \A j \in DOMAIN respQueue' :
             IF respQueue'[j].id \in PendingIds
             THEN \E k \in DOMAIN respQueue :
                     /\ respQueue[k].id = respQueue'[j].id
                     /\ Fields(respQueue'[j]) = Fields(respQueue[k])
             ELSE /\ Handled
                  /\ Scanned(last'.payload)
                  /\ MatchingRules(last'.payload) # {}
                  /\ respQueue'[j].id = Len(reqLog')
                  /\ Fields(respQueue'[j]) = FieldsOfCall]_vars

\* two calls to endpoint 9 that came with tag 1 and the tag-owner bit set were
\* answered, one at once and one from the queue, with tag 0 and the bit clear
C20_Witness ==
    /\ Len(emitted) = 2
    /\ emitted[1].via = "immediate"
    /\ Fields(emitted[1]) = << 1, 9, 0, FALSE, << 10 >> >>
    /\ emitted[2].via = "queue"
    /\ Fields(emitted[2]) = << 1, 9, 0, FALSE, << 12 >> >>
    /\ emitted[2].id = 1
    /\ last.kind = "tick"

====
